---- MODULE Spec2Model ----
(***************************************************************************)
(* A model of the an-zipper crate: the singly-linked stack List            *)
(* (src/src/lib.rs), its iterators (src/src/list/mod.rs) and the ZipList   *)
(* built from a pair of Lists.                                             *)
(*                                                                         *)
(* A Link<T> = Option<Box<Node<T>>> is an exclusively owned chain, so it   *)
(* is represented by the sequence of its elements from the head on: <<>>   *)
(* is None, and a Node is a non-empty chain whose elem is Head(chain) and  *)
(* whose next is Tail(chain).  An Option<T> is a sequence of length <= 1.  *)
(* A List keeps the chain and the cached len as two separate fields.       *)
(***************************************************************************)
EXTENDS Integers, Sequences, FiniteSets, TLC

\* ---- bounds of the model ------------------------------------------------
MaxLen == 3
MaxElem == 3
MaxSeek == 5

Elem == 1..MaxElem
SeekArg == 0..MaxSeek

\* ---- Option<T> ----------------------------------------------------------
None == <<>>
Some(x) == <<x>>

RECURSIVE Reverse(_)
Reverse(s) == IF s = <<>> THEN <<>> ELSE Append(Reverse(Tail(s)), Head(s))

Min(a, b) == IF a < b THEN a ELSE b

\* ---- Node and List (src/src/lib.rs) ------------------------------------
\* Node::new(elem): a node with no successor
NodeNew(elem) == <<elem>>

\* List::new()
ListNew == [head |-> None, len |-> 0]

\* List::len()
ListLen(l) == l.len

\* List::is_empty()
ListIsEmpty(l) == l.head = None

Cons_NoLen(l, node) == [head |-> <<Head(node)>> \o l.head, len |-> l.len]
Cons_Tail(l, node) == [head |-> l.head \o <<Head(node)>>, len |-> l.len + 1]
\* List::cons(node): node.next = self.head.take(); self.head = Some(node);
\* self.len += 1
Cons(l, node) == [head |-> <<Head(node)>> \o l.head, len |-> l.len + 1]

Uncons_Underflow(l) ==
    [list |-> [head |-> IF l.head = None THEN None ELSE Tail(l.head),
               len |-> l.len - 1],
     node |-> IF l.head = None THEN None ELSE <<Head(l.head)>>]
\* List::uncons(): self.head.take().map(|mut node| { self.head =
\* node.next.take(); self.len -= 1; node })
Uncons(l) ==
    IF l.head = None
    THEN [list |-> l, node |-> None]
    ELSE [list |-> [head |-> Tail(l.head), len |-> l.len - 1],
          node |-> <<Head(l.head)>>]

\* Stack::push for List: self.cons(Box::new(Node::new(elem)))
ListPush(l, elem) == Cons(l, NodeNew(elem))

\* Stack::pop for List: self.uncons().map(|node| node.elem)
ListPop(l) ==
    LET u == Uncons(l)
    IN  [list |-> u.list,
         ret |-> IF u.node = None THEN None ELSE Some(Head(u.node))]

ListPeek_Second(l) ==
    IF Len(l.head) >= 2 THEN Some(l.head[2])
    ELSE IF l.head = None THEN None ELSE Some(Head(l.head))
\* Stack::peek for List: self.head.as_ref().map(|node| &node.elem)
ListPeek(l) == IF l.head = None THEN None ELSE Some(Head(l.head))

\* Stack::peek_mut for List: self.head.as_mut().map(|node| &mut node.elem)
ListPeekMut(l) == IF l.head = None THEN None ELSE Some(Head(l.head))

\* what the caller does with the Option<&mut T> of peek_mut: store w in the
\* head element it borrows, or (w = 0, or no element) store nothing
StoreHead(l, w) ==
    IF l.head = None \/ w = 0
    THEN l
    ELSE [head |-> <<w>> \o Tail(l.head), len |-> l.len]

\* ---- ZipList (src/src/lib.rs) ------------------------------------------
\* ZipList::new()
ZipNew == [left |-> ListNew, right |-> ListNew]

\* ZipList::len()
ZipLen(z) == ListLen(z.left) + ListLen(z.right)

\* ZipList::is_empty()
ZipIsEmpty(z) == ListIsEmpty(z.left) /\ ListIsEmpty(z.right)

\* the one sequence a ZipList stands for: reverse(left) ++ right
Represented(z) == Reverse(z.left.head) \o z.right.head

\* ZipList::pop_left(): self.left.pop()
ZipPopLeft(z) ==
    LET p == ListPop(z.left)
    IN  [zip |-> [left |-> p.list, right |-> z.right], ret |-> p.ret]

\* ZipList::pop_right(): self.right.pop()
ZipPopRight(z) ==
    LET p == ListPop(z.right)
    IN  [zip |-> [left |-> z.left, right |-> p.list], ret |-> p.ret]

\* ZipList::peek_left(): self.left.peek()
ZipPeekLeft(z) == ListPeek(z.left)

\* ZipList::peek_right(): self.right.peek()
ZipPeekRight(z) == ListPeek(z.right)

\* ZipList::peek_left_mut(): self.left.peek_mut(), and the caller's store
ZipPeekLeftMut(z, w) ==
    [zip |-> [left |-> StoreHead(z.left, w), right |-> z.right],
     ret |-> ListPeekMut(z.left)]

\* ZipList::peek_right_mut(): self.right.peek_mut(), and the caller's store
ZipPeekRightMut(z, w) ==
    [zip |-> [left |-> z.left, right |-> StoreHead(z.right, w)],
     ret |-> ListPeekMut(z.right)]

\* ZipList::push_left(elem): self.left.push(elem)
ZipPushLeft(z, elem) == [left |-> ListPush(z.left, elem), right |-> z.right]

\* ZipList::push_right(elem): the body is self.left.push(elem)
ZipPushRight(z, elem) == [left |-> ListPush(z.left, elem), right |-> z.right]

MoveLeft_Drop(z) ==
    LET u == Uncons(z.left)
    IN  [zip |-> [left |-> u.list, right |-> z.right], ret |-> u.node # None]
MoveLeft_AlwaysTrue(z) ==
    LET u == Uncons(z.left)
    IN  IF u.node = None
        THEN [zip |-> [left |-> u.list, right |-> z.right], ret |-> TRUE]
        ELSE [zip |-> [left |-> u.list, right |-> Cons(z.right, u.node)],
              ret |-> TRUE]
\* ZipList::move_left(): self.left.uncons().map(|n| self.right.cons(n))
\* .is_some()
MoveLeft(z) ==
    LET u == Uncons(z.left)
    IN  IF u.node = None
        THEN [zip |-> [left |-> u.list, right |-> z.right], ret |-> FALSE]
        ELSE [zip |-> [left |-> u.list, right |-> Cons(z.right, u.node)],
              ret |-> TRUE]

MoveRight_Copy(z) ==
    LET u == Uncons(z.right)
    IN  IF u.node = None
        THEN [zip |-> z, ret |-> FALSE]
        ELSE [zip |-> [left |-> Cons(z.left, u.node), right |-> z.right],
              ret |-> TRUE]
\* ZipList::move_right(): self.right.uncons().map(|n| self.left.cons(n))
\* .is_some()
MoveRight(z) ==
    LET u == Uncons(z.right)
    IN  IF u.node = None
        THEN [zip |-> [left |-> z.left, right |-> u.list], ret |-> FALSE]
        ELSE [zip |-> [left |-> Cons(z.left, u.node), right |-> u.list],
              ret |-> TRUE]

\* the while loop of seek_left: amount < n && self.move_left(); calls counts
\* the move_left calls made
RECURSIVE SeekLeftLoop(_, _, _, _)
SeekLeftLoop(z, n, amount, calls) ==
    IF amount < n
    THEN LET m == MoveLeft(z)
         IN  IF m.ret
             THEN SeekLeftLoop(m.zip, n, amount + 1, calls + 1)
             ELSE [zip |-> m.zip, ret |-> amount, calls |-> calls + 1]
    ELSE [zip |-> z, ret |-> amount, calls |-> calls]

\* a loop that calls move_left() before it tests amount < n
RECURSIVE SeekLeftLoop_MoveFirst(_, _, _, _)
SeekLeftLoop_MoveFirst(z, n, amount, calls) ==
    LET m == MoveLeft(z)
    IN  IF m.ret /\ amount < n
        THEN SeekLeftLoop_MoveFirst(m.zip, n, amount + 1, calls + 1)
        ELSE [zip |-> m.zip, ret |-> amount, calls |-> calls + 1]

SeekLeft_MoveFirst(z, n) == SeekLeftLoop_MoveFirst(z, n, 0, 0)
SeekLeft_NoClamp(z, n) ==
    LET r == SeekLeftLoop(z, n, 0, 0)
    IN  [zip |-> r.zip, ret |-> n, calls |-> r.calls]
\* ZipList::seek_left(n)
SeekLeft(z, n) == SeekLeftLoop(z, n, 0, 0)

\* the while loop of seek_right: amount < n && self.move_right()
RECURSIVE SeekRightLoop(_, _, _, _)
SeekRightLoop(z, n, amount, calls) ==
    IF amount < n
    THEN LET m == MoveRight(z)
         IN  IF m.ret
             THEN SeekRightLoop(m.zip, n, amount + 1, calls + 1)
             ELSE [zip |-> m.zip, ret |-> amount, calls |-> calls + 1]
    ELSE [zip |-> z, ret |-> amount, calls |-> calls]

SeekRight_OneShort(z, n) == SeekRightLoop(z, IF n > 1 THEN n - 1 ELSE n, 0, 0)
\* ZipList::seek_right(n)
SeekRight(z, n) == SeekRightLoop(z, n, 0, 0)

\* ---- Iter (src/src/list/mod.rs) ----------------------------------------
\* no iterator borrows the list
NoIter == [kind |-> "None", next |-> None, len |-> 0]

IterNew_Skip(l) ==
    [kind |-> "Iter",
     next |-> IF l.head = None THEN None ELSE Tail(l.head),
     len |-> l.len]
\* List::iter(): Iter { next: self.head.as_ref().map(|head| &**head),
\* len: self.len }
IterNew(l) == [kind |-> "Iter", next |-> l.head, len |-> l.len]

IterNext_NoDec(i) ==
    IF i.next = None
    THEN [iter |-> i, ret |-> None]
    ELSE [iter |-> [kind |-> i.kind, next |-> Tail(i.next), len |-> i.len],
          ret |-> Some(Head(i.next))]
\* Iter::next(): self.next.map(|node| { self.next = node.next...;
\* self.len -= 1; &node.elem })
IterNext(i) ==
    IF i.next = None
    THEN [iter |-> i, ret |-> None]
    ELSE [iter |-> [kind |-> i.kind, next |-> Tail(i.next), len |-> i.len - 1],
          ret |-> Some(Head(i.next))]

\* ---- IterMut (src/src/list/mod.rs) -------------------------------------
\* List::iter_mut(): IterMut { next: self.head.as_mut().map(|head| &mut **head),
\* len: self.len }
IterMutNew(l) == [kind |-> "IterMut", next |-> l.head, len |-> l.len]

IterMutNext_SkipOne(i) ==
    IF i.next = None
    THEN [iter |-> i, ret |-> None]
    ELSE [iter |-> [kind |-> i.kind,
                    next |-> IF Len(i.next) >= 2 THEN Tail(Tail(i.next)) ELSE None,
                    len |-> i.len - 1],
          ret |-> Some(Head(i.next))]
\* IterMut::next(): self.next.take().map(|node| { self.next = node.next...;
\* self.len -= 1; &mut node.elem })
IterMutNext(i) ==
    IF i.next = None
    THEN [iter |-> i, ret |-> None]
    ELSE [iter |-> [kind |-> i.kind, next |-> Tail(i.next), len |-> i.len - 1],
          ret |-> Some(Head(i.next))]

\* *item = v through the &mut T that IterMut yielded for the k-th node
StoreAt(l, k, v) == [head |-> [l.head EXCEPT ![k] = v], len |-> l.len]

\* ---- IntoIter (src/src/list/mod.rs) ------------------------------------
\* the List an IntoIter(list) wraps: its next and len fields are self.0.head
\* and self.0.len
Inner(i) == [head |-> i.next, len |-> i.len]

\* List::into_iter(self): IntoIter(self)
ListIntoIter(l) == [kind |-> "IntoIter", next |-> l.head, len |-> l.len]

\* <List as IntoIterator>::into_iter(self): self.into_iter(), which names the
\* inherent List::into_iter (an inherent method is chosen before a trait's)
TraitIntoIter(l) == ListIntoIter(l)

IntoIterNext_Peek(i) == [iter |-> i, ret |-> ListPeek(Inner(i))]
\* IntoIter::next(): self.0.pop()
IntoIterNext(i) ==
    LET p == ListPop(Inner(i))
    IN  [iter |-> [kind |-> i.kind, next |-> p.list.head, len |-> p.list.len],
         ret |-> p.ret]

\* size_hint() of Iter, IterMut and IntoIter: (self.len, Some(self.len))
SizeHint(i) == <<i.len, Some(i.len)>>

\* ExactSizeIterator::len() of Iter, IterMut and IntoIter
ExactLen(i) == i.len

\* next() of whichever iterator i is
NextOf(i) ==
    IF i.kind = "Iter" THEN IterNext(i)
    ELSE IF i.kind = "IterMut" THEN IterMutNext(i)
    ELSE IntoIterNext(i)

\* ---- Drop for List (src/src/lib.rs) -------------------------------------
\* for _ in self { }: self is &mut List, so the loop runs over
\* self.iter_mut() with an empty body
RECURSIVE DropLoop(_, _)
DropLoop(l, i) ==
    LET n == IterMutNext(i)
    IN  IF n.ret = None THEN l ELSE DropLoop(l, n.iter)

\* Drop::drop for List: the List as the loop leaves it, which the field
\* destructors then free
ListDrop(l) == DropLoop(l, IterMutNew(l))

\* ---- Debug and Display (src/src/lib.rs) ---------------------------------
\* A String is the sequence of its characters.
Digits == <<"0", "1", "2", "3", "4", "5", "6", "7", "8", "9">>

\* the decimal digits of n, as {} and {:?} of an integer write them
RECURSIVE Decimal(_)
Decimal(n) ==
    IF n < 10 THEN <<Digits[n + 1]>>
    ELSE Decimal(n \div 10) \o <<Digits[(n % 10) + 1]>>

\* {} and {:?} of an element (usize in the tests): its decimal digits
ElemDisplay(e) == Decimal(e)
ElemDebug(e) == Decimal(e)

\* {} of a String: the string itself
StrDisplay(str) == str

\* {:?} of a String: the string in double quotes (the strings formatted here
\* hold digits, commas and spaces only, which are not escaped)
StrDebug(str) == <<"\"">> \o str \o <<"\"">>

\* Display for Node: "{}{}" of elem and of ", {next}" or ""
RECURSIVE NodeDisplay(_)
NodeDisplay(node) ==
    ElemDisplay(Head(node)) \o
        StrDisplay(IF Tail(node) = None THEN <<>>
                   ELSE <<",", " ">> \o NodeDisplay(Tail(node)))

\* Debug for Node: "{:?}{}" of elem and of ", {next:?}" or ""
RECURSIVE NodeDebug(_)
NodeDebug(node) ==
    ElemDebug(Head(node)) \o
        StrDisplay(IF Tail(node) = None THEN <<>>
                   ELSE <<",", " ">> \o NodeDebug(Tail(node)))

\* Display for List: "[{}]" of the String format!("{}", head) or ""
ListDisplay(l) ==
    <<"[">> \o StrDisplay(IF l.head = None THEN <<>> ELSE NodeDisplay(l.head))
            \o <<"]">>

\* Debug for List: "[{:?}]" of the String format!("{:?}", head) or ""
ListDebug(l) ==
    <<"[">> \o StrDebug(IF l.head = None THEN <<>> ELSE NodeDebug(l.head))
            \o <<"]">>

\* ---- the stand-alone List (src/src/slist.rs) -----------------------------
\* slist::List::new(): List { head: None, len: 0 }
SListNew == [head |-> None, len |-> 0]

\* slist::List::len(): self.len
SListLen(l) == l.len

\* slist::List::is_empty(): self.len == 0
SListIsEmpty(l) == l.len = 0

\* slist push(): self.head = Node { elem, next: self.head.take() }.link();
\* self.len += 1
SListPush(l, elem) == [head |-> <<elem>> \o l.head, len |-> l.len + 1]

SListPop_NoDec(l) ==
    IF l.head = None
    THEN [list |-> l, ret |-> None]
    ELSE [list |-> [head |-> Tail(l.head), len |-> l.len],
          ret |-> Some(Head(l.head))]
\* slist pop(): self.head.take().map(|head| { let head = *head;
\* self.head = head.next; self.len -= 1; head.elem })
SListPop(l) ==
    IF l.head = None
    THEN [list |-> l, ret |-> None]
    ELSE [list |-> [head |-> Tail(l.head), len |-> l.len - 1],
          ret |-> Some(Head(l.head))]

\* slist peek(): self.head.as_ref().map(|node| &node.elem)
SListPeek(l) == IF l.head = None THEN None ELSE Some(Head(l.head))

\* ---- state ---------------------------------------------------------------
VARIABLES
    live,       \* which object the caller holds: "List", "ZipList", ...
    list,       \* the List                      (meaningful when live = "List")
    zip,        \* the ZipList                   (meaningful when live = "ZipList")
    it,         \* the borrowing iterator over list, or NoIter
    last,       \* the last call: its name, argument, result and the object before it
    prev,       \* the call before last, kept when the two form a pair of TrackedPairs
    base,       \* the List as it was before the current run of pushes
    run,        \* the values pushed by the current run of consecutive pushes
    pops,       \* the results of the pops that followed that run
    fresh,      \* Some(the values pushed since new(), in order) while nothing was popped
    count,      \* pushes minus successful pops on the live object
    scen,       \* how many steps of Scenario the calls since new() have followed
    yielded,    \* what the iterator `it` has yielded so far
    doneYield,  \* Some(what the previous exhausted iterator yielded), list unchanged since
    anchor,     \* the sequence the ZipList stood for after the last call that was no move or seek
    calls,      \* how many move_* calls the last call made, when it was a seek
    mpass,      \* the iter_mut() pass: push order at its start, stores made, completed
    slist,      \* the stand-alone List run beside list  (meaningful when live = "Twin")
    sret        \* what the last call returned on slist  (meaningful when live = "Twin")

vars == <<live, list, zip, it, last, prev, base, run, pops, fresh, count, scen,
          yielded, doneYield, anchor, calls, mpass, slist, sret>>

Rec(op, arg, ret, pre) == [op |-> op, arg |-> arg, ret |-> ret, pre |-> pre]
NoRec == Rec("none", 0, None, None)

\* no iter_mut() pass; done says that a pass which stored x + 1 into every
\* element it was yielded has ended and the list is as that pass left it
NoPass == [pushed |-> None, wrote |-> 0, done |-> FALSE]

\* the pairs of consecutive calls whose first call is remembered in prev
TrackedPairs ==
    { <<"peek", "peek">>, <<"peek", "pop">>, <<"push", "peek">>,
      <<"peek_left", "peek_left">>, <<"peek_left", "pop_left">>,
      <<"peek_right", "peek_right">>, <<"peek_right", "pop_right">>,
      <<"move_left", "move_right">>, <<"move_right", "move_left">>,
      <<"seek_left", "seek_right">>, <<"seek_right", "seek_left">>,
      <<"iter_next", "iter_next">>, <<"iter_mut_next", "iter_mut_next">>,
      <<"into_iter_next", "into_iter_next">> }

NextOps == {"iter_next", "iter_mut_next", "into_iter_next"}

\* the call (op, arg) after the call first is one that prev remembers first for;
\* a seek is remembered for the opposite seek of the distance it returned, a
\* next() for the next() after it had returned none
Tracked(first, op, arg) ==
    /\ <<first.op, op>> \in TrackedPairs
    /\ op \in {"seek_left", "seek_right"} => arg = first.ret
    /\ op \in NextOps => first.ret = None

\* the call sequence of the end-to-end scenario, from new()
Scenario ==
    << <<"push_left", 1>>, <<"push_left", 2>>, <<"push_right", 3>>,
       <<"move_left", 0>>, <<"peek_right", 0>>, <<"seek_right", 5>> >>

ScenStep(op, arg) ==
    IF scen >= 0 /\ scen < Len(Scenario) /\ Scenario[scen + 1] = <<op, arg>>
    THEN scen + 1
    ELSE -1

\* the iterator has returned none
Exhausted == it.kind = "Iter" /\ last.op = "iter_next" /\ last.ret = None
ExhaustedMut ==
    it.kind = "IterMut" /\ last.op = "iter_mut_next" /\ last.ret = None
ExhaustedInto ==
    it.kind = "IntoIter" /\ last.op = "into_iter_next" /\ last.ret = None

\* bookkeeping common to every call
Called(op, arg, ret, pre) ==
    /\ last' = Rec(op, arg, ret, pre)
    /\ prev' = IF Tracked(last, op, arg) THEN last ELSE NoRec

Init ==
    /\ live \in {"List", "ZipList"}
    /\ list = ListNew
    /\ zip = ZipNew
    /\ it = NoIter
    /\ last = Rec("new", 0, None, None)
    /\ prev = NoRec
    /\ base = ListNew
    /\ run = <<>>
    /\ pops = <<>>
    /\ fresh = Some(<<>>)
    /\ count = 0
    /\ scen = 0
    /\ yielded = <<>>
    /\ doneYield = None
    /\ anchor = <<>>
    /\ calls = 0
    /\ mpass = NoPass
    /\ slist = SListNew
    /\ sret = None

\* ---- calls on a List ------------------------------------------------------
\* Guards on MaxLen keep the chains and the cached lens (which are kept apart
\* from the chain lengths) inside the bounds of the model.
\* let list = List::new(), dropping the object held before
DoListNew ==
    /\ it = NoIter
    /\ live' = "List"
    /\ list' = ListNew
    /\ zip' = ZipNew
    /\ Called("new", 0, None, None)
    /\ mpass' = NoPass
    /\ calls' = 0
    /\ anchor' = <<>>
    /\ base' = ListNew /\ run' = <<>> /\ pops' = <<>>
    /\ fresh' = Some(<<>>)
    /\ count' = 0
    /\ scen' = -1
    /\ doneYield' = None
    /\ UNCHANGED <<it, yielded>>
    /\ slist' = SListNew /\ sret' = None

\* list.push(elem)
DoPush(elem) ==
    /\ live \in {"List", "Twin"} /\ it = NoIter
    /\ Len(list.head) < MaxLen
    /\ list' = ListPush(list, elem)
    /\ Called("push", elem, None, list)
    /\ mpass' = NoPass
    /\ calls' = 0
    /\ UNCHANGED anchor
    /\ IF pops = <<>>
       THEN /\ run' = Append(run, elem)
            /\ UNCHANGED <<base, pops>>
       ELSE /\ base' = list
            /\ run' = <<elem>>
            /\ pops' = <<>>
    /\ fresh' = IF fresh = None THEN None ELSE Some(Append(fresh[1], elem))
    /\ count' = count + 1
    /\ doneYield' = None
    /\ UNCHANGED <<live, zip, it, scen, yielded>>
    /\ slist' = IF live = "Twin" THEN SListPush(slist, elem) ELSE slist
    /\ sret' = None

\* list.pop()
DoPop ==
    /\ live \in {"List", "Twin"} /\ it = NoIter
    /\ list.len > -MaxLen
    /\ LET p == ListPop(list)
       IN  /\ list' = p.list
           /\ Called("pop", 0, p.ret, list)
           /\ mpass' = NoPass
           /\ calls' = 0
           /\ UNCHANGED anchor
           /\ IF Len(pops) < Len(run)
              THEN /\ pops' = Append(pops, p.ret)
                   /\ UNCHANGED <<base, run>>
              ELSE /\ base' = p.list
                   /\ run' = <<>>
                   /\ pops' = <<>>
           /\ count' = IF p.ret = None THEN count ELSE count - 1
    /\ fresh' = None
    /\ doneYield' = None
    /\ UNCHANGED <<live, zip, it, scen, yielded>>
    /\ slist' = IF live = "Twin" THEN SListPop(slist).list ELSE slist
    /\ sret' = IF live = "Twin" THEN SListPop(slist).ret ELSE sret

\* list.peek()
DoPeek ==
    /\ live \in {"List", "Twin"} /\ it = NoIter
    /\ Called("peek", 0, ListPeek(list), list)
    /\ UNCHANGED mpass
    /\ calls' = 0
    /\ UNCHANGED anchor
    /\ UNCHANGED <<live, list, zip, it, base, run, pops, fresh, count, scen,
                   yielded, doneYield>>
    /\ sret' = IF live = "Twin" THEN SListPeek(slist) ELSE sret
    /\ UNCHANGED slist

\* let list = List::new() and let slist = slist::List::new(): the caller
\* holds both and from here makes every call on both
DoTwinNew ==
    /\ it = NoIter
    /\ live' = "Twin"
    /\ list' = ListNew
    /\ slist' = SListNew
    /\ sret' = None
    /\ zip' = ZipNew
    /\ Called("new", 0, None, None)
    /\ mpass' = NoPass
    /\ calls' = 0
    /\ anchor' = <<>>
    /\ base' = ListNew /\ run' = <<>> /\ pops' = <<>>
    /\ fresh' = Some(<<>>)
    /\ count' = 0
    /\ scen' = -1
    /\ doneYield' = None
    /\ UNCHANGED <<it, yielded>>

\* list.len()
DoLen ==
    /\ live \in {"List", "Twin"} /\ it = NoIter
    /\ Called("len", 0, ListLen(list), list)
    /\ sret' = IF live = "Twin" THEN SListLen(slist) ELSE sret
    /\ calls' = 0
    /\ UNCHANGED <<live, list, zip, it, base, run, pops, fresh, count, scen,
                   yielded, doneYield, anchor, mpass, slist>>

\* list.is_empty()
DoIsEmpty ==
    /\ live \in {"List", "Twin"} /\ it = NoIter
    /\ Called("is_empty", 0, ListIsEmpty(list), list)
    /\ sret' = IF live = "Twin" THEN SListIsEmpty(slist) ELSE sret
    /\ calls' = 0
    /\ UNCHANGED <<live, list, zip, it, base, run, pops, fresh, count, scen,
                   yielded, doneYield, anchor, mpass, slist>>

\* let it = list.iter(), in place of the iterator held before
DoIter ==
    /\ live = "List" /\ it.kind \in {"None", "Iter"}
    /\ it' = IterNew(list)
    /\ Called("iter", 0, None, list)
    /\ UNCHANGED mpass
    /\ calls' = 0
    /\ UNCHANGED anchor
    /\ yielded' = <<>>
    /\ doneYield' = IF Exhausted THEN Some(yielded) ELSE doneYield
    /\ base' = list /\ run' = <<>> /\ pops' = <<>>
    /\ UNCHANGED <<live, list, zip, fresh, count, scen>>
    /\ UNCHANGED <<slist, sret>>

\* it.next()
DoIterNext ==
    /\ live = "List" /\ it.kind = "Iter"
    /\ it.len > -MaxLen
    /\ LET n == IterNext(it)
       IN  /\ it' = n.iter
           /\ Called("iter_next", 0, n.ret, list)
           /\ UNCHANGED mpass
           /\ calls' = 0
           /\ UNCHANGED anchor
           /\ yielded' = IF n.ret = None THEN yielded
                         ELSE Append(yielded, n.ret[1])
    /\ UNCHANGED <<live, list, zip, base, run, pops, fresh, count, scen,
                   doneYield>>
    /\ UNCHANGED <<slist, sret>>

\* the iterator goes out of scope, ending the borrow
DoIterDrop ==
    /\ live = "List" /\ it.kind = "Iter"
    /\ it' = NoIter
    /\ Called("iter_drop", 0, None, list)
    /\ UNCHANGED mpass
    /\ calls' = 0
    /\ UNCHANGED anchor
    /\ yielded' = <<>>
    /\ doneYield' = IF Exhausted THEN Some(yielded) ELSE doneYield
    /\ base' = list /\ run' = <<>> /\ pops' = <<>>
    /\ UNCHANGED <<live, list, zip, fresh, count, scen>>
    /\ UNCHANGED <<slist, sret>>

\* let it = list.iter_mut()
DoIterMut ==
    /\ live = "List" /\ it = NoIter
    /\ it' = IterMutNew(list)
    /\ Called("iter_mut", 0, None, list)
    /\ calls' = 0
    /\ yielded' = <<>>
    /\ mpass' = [pushed |-> fresh, wrote |-> 0, done |-> FALSE]
    /\ base' = list /\ run' = <<>> /\ pops' = <<>>
    /\ UNCHANGED <<live, list, zip, fresh, count, scen, doneYield, anchor>>
    /\ UNCHANGED <<slist, sret>>

\* it.next() on the IterMut
DoIterMutNext ==
    /\ live = "List" /\ it.kind = "IterMut"
    /\ it.len > -MaxLen
    /\ LET n == IterMutNext(it)
       IN  /\ it' = n.iter
           /\ Called("iter_mut_next", 0, n.ret, list)
           /\ yielded' = IF n.ret = None THEN yielded
                         ELSE Append(yielded, n.ret[1])
    /\ calls' = 0
    /\ UNCHANGED <<live, list, zip, base, run, pops, fresh, count, scen,
                   doneYield, anchor, mpass>>
    /\ UNCHANGED <<slist, sret>>

\* *item = *item + 1 on the element the IterMut has just yielded
DoIterMutStore ==
    /\ live = "List" /\ it.kind = "IterMut"
    /\ last.op = "iter_mut_next" /\ last.ret # None
    /\ last.ret[1] <= MaxElem
    /\ Len(yielded) \in 1..Len(list.head)
    /\ list' = StoreAt(list, Len(yielded), last.ret[1] + 1)
    /\ Called("store", last.ret[1] + 1, None, list)
    /\ calls' = 0
    /\ mpass' = [mpass EXCEPT !.wrote = @ + 1]
    /\ fresh' = None
    /\ doneYield' = None
    /\ UNCHANGED <<live, zip, it, base, run, pops, count, scen, yielded,
                   anchor>>
    /\ UNCHANGED <<slist, sret>>

\* the IterMut goes out of scope, ending the borrow
DoIterMutDrop ==
    /\ live = "List" /\ it.kind = "IterMut"
    /\ it' = NoIter
    /\ Called("iter_mut_drop", 0, None, list)
    /\ calls' = 0
    /\ yielded' = <<>>
    /\ mpass' = IF /\ ExhaustedMut
                   /\ mpass.pushed # None
                   /\ mpass.wrote = Len(yielded)
                THEN [mpass EXCEPT !.done = TRUE]
                ELSE NoPass
    /\ base' = list /\ run' = <<>> /\ pops' = <<>>
    /\ UNCHANGED <<live, list, zip, fresh, count, scen, doneYield, anchor>>
    /\ UNCHANGED <<slist, sret>>

\* let it = list.into_iter(): the inherent method, which moves the list
IntoIterFrame ==
    /\ live' = "IntoIter"
    /\ list' = ListNew
    /\ calls' = 0
    /\ yielded' = <<>>
    /\ doneYield' = None
    /\ mpass' = NoPass
    /\ base' = list /\ run' = <<>> /\ pops' = <<>>
    /\ UNCHANGED <<zip, fresh, count, scen, anchor>>

DoIntoIter ==
    /\ live = "List" /\ it = NoIter
    /\ it' = ListIntoIter(list)
    /\ Called("into_iter", 0, None, list)
    /\ IntoIterFrame
    /\ UNCHANGED <<slist, sret>>

\* let it = IntoIterator::into_iter(list), as a for loop over the list does
DoTraitIntoIter ==
    /\ live = "List" /\ it = NoIter
    /\ it' = TraitIntoIter(list)
    /\ Called("trait_into_iter", 0, None, list)
    /\ IntoIterFrame
    /\ UNCHANGED <<slist, sret>>

\* it.next() on the IntoIter
DoIntoIterNext ==
    /\ live = "IntoIter"
    /\ it.len > -MaxLen /\ Len(yielded) <= MaxLen
    /\ LET n == IntoIterNext(it)
       IN  /\ it' = n.iter
           /\ Called("into_iter_next", 0, n.ret, Inner(it))
           /\ yielded' = IF n.ret = None THEN yielded
                         ELSE Append(yielded, n.ret[1])
    /\ calls' = 0
    /\ UNCHANGED <<live, list, zip, base, run, pops, fresh, count, scen,
                   doneYield, anchor, mpass>>
    /\ UNCHANGED <<slist, sret>>

\* what is left of a dropped object is kept in list until the next new()
DropFrame ==
    /\ live' = "Dropped"
    /\ it' = NoIter
    /\ calls' = 0
    /\ yielded' = <<>>
    /\ doneYield' = None
    /\ mpass' = NoPass
    /\ base' = ListNew /\ run' = <<>> /\ pops' = <<>>
    /\ fresh' = None
    /\ UNCHANGED <<zip, count, scen, anchor>>

\* the IntoIter goes out of scope: the List it wraps is dropped
DoIntoIterDrop ==
    /\ live = "IntoIter"
    /\ list' = ListDrop(Inner(it))
    /\ Called("drop", 0, None, Inner(it))
    /\ DropFrame
    /\ UNCHANGED <<slist, sret>>

\* the List goes out of scope: Drop::drop runs
DoListDrop ==
    /\ live = "List" /\ it = NoIter
    /\ list' = ListDrop(list)
    /\ Called("drop", 0, None, list)
    /\ DropFrame
    /\ UNCHANGED <<slist, sret>>

\* format!("{}", list)
DoFmtDisplay ==
    /\ live = "List" /\ it = NoIter
    /\ Called("fmt_display", 0, ListDisplay(list), list)
    /\ calls' = 0
    /\ UNCHANGED <<live, list, zip, it, base, run, pops, fresh, count, scen,
                   yielded, doneYield, anchor, mpass>>
    /\ UNCHANGED <<slist, sret>>

\* format!("{:?}", list)
DoFmtDebug ==
    /\ live = "List" /\ it = NoIter
    /\ Called("fmt_debug", 0, ListDebug(list), list)
    /\ calls' = 0
    /\ UNCHANGED <<live, list, zip, it, base, run, pops, fresh, count, scen,
                   yielded, doneYield, anchor, mpass>>
    /\ UNCHANGED <<slist, sret>>

\* ---- calls on a ZipList ---------------------------------------------------
ZipFrame ==
    UNCHANGED <<live, list, it, base, run, pops, fresh, yielded, doneYield,
                mpass>>

\* let zip = ZipList::new(), dropping the object held before
DoZipNew ==
    /\ it = NoIter
    /\ live' = "ZipList"
    /\ zip' = ZipNew
    /\ list' = ListNew
    /\ Called("new", 0, None, None)
    /\ mpass' = NoPass
    /\ calls' = 0
    /\ anchor' = <<>>
    /\ base' = ListNew /\ run' = <<>> /\ pops' = <<>>
    /\ fresh' = Some(<<>>)
    /\ count' = 0
    /\ scen' = 0
    /\ doneYield' = None
    /\ UNCHANGED <<it, yielded>>
    /\ slist' = SListNew /\ sret' = None

\* zip.push_left(elem)
DoPushLeft(elem) ==
    /\ live = "ZipList"
    /\ Len(zip.left.head) + Len(zip.right.head) < MaxLen
    /\ zip' = ZipPushLeft(zip, elem)
    /\ Called("push_left", elem, None, zip)
    /\ calls' = 0
    /\ anchor' = Represented(zip')
    /\ count' = count + 1
    /\ scen' = ScenStep("push_left", elem)
    /\ ZipFrame
    /\ UNCHANGED <<slist, sret>>

\* zip.push_right(elem)
DoPushRight(elem) ==
    /\ live = "ZipList"
    /\ Len(zip.left.head) + Len(zip.right.head) < MaxLen
    /\ zip' = ZipPushRight(zip, elem)
    /\ Called("push_right", elem, None, zip)
    /\ calls' = 0
    /\ anchor' = Represented(zip')
    /\ count' = count + 1
    /\ scen' = ScenStep("push_right", elem)
    /\ ZipFrame
    /\ UNCHANGED <<slist, sret>>

\* zip.pop_left()
DoPopLeft ==
    /\ live = "ZipList"
    /\ zip.left.len > -MaxLen
    /\ LET p == ZipPopLeft(zip)
       IN  /\ zip' = p.zip
           /\ Called("pop_left", 0, p.ret, zip)
           /\ calls' = 0
           /\ anchor' = Represented(zip')
           /\ count' = IF p.ret = None THEN count ELSE count - 1
    /\ scen' = ScenStep("pop_left", 0)
    /\ ZipFrame
    /\ UNCHANGED <<slist, sret>>

\* zip.pop_right()
DoPopRight ==
    /\ live = "ZipList"
    /\ zip.right.len > -MaxLen
    /\ LET p == ZipPopRight(zip)
       IN  /\ zip' = p.zip
           /\ Called("pop_right", 0, p.ret, zip)
           /\ calls' = 0
           /\ anchor' = Represented(zip')
           /\ count' = IF p.ret = None THEN count ELSE count - 1
    /\ scen' = ScenStep("pop_right", 0)
    /\ ZipFrame
    /\ UNCHANGED <<slist, sret>>

\* zip.peek_left()
DoPeekLeft ==
    /\ live = "ZipList"
    /\ Called("peek_left", 0, ZipPeekLeft(zip), zip)
    /\ calls' = 0
    /\ anchor' = Represented(zip)
    /\ scen' = ScenStep("peek_left", 0)
    /\ UNCHANGED <<zip, count>>
    /\ ZipFrame
    /\ UNCHANGED <<slist, sret>>

\* zip.peek_right()
DoPeekRight ==
    /\ live = "ZipList"
    /\ Called("peek_right", 0, ZipPeekRight(zip), zip)
    /\ calls' = 0
    /\ anchor' = Represented(zip)
    /\ scen' = ScenStep("peek_right", 0)
    /\ UNCHANGED <<zip, count>>
    /\ ZipFrame
    /\ UNCHANGED <<slist, sret>>

\* zip.peek_left_mut(), the caller storing w (if not 0) through the borrow
DoPeekLeftMut(w) ==
    /\ live = "ZipList"
    /\ LET p == ZipPeekLeftMut(zip, w)
       IN  /\ zip' = p.zip
           /\ Called("peek_left_mut", w, p.ret, zip)
           /\ calls' = 0
           /\ anchor' = Represented(p.zip)
    /\ scen' = ScenStep("peek_left_mut", w)
    /\ UNCHANGED count
    /\ ZipFrame
    /\ UNCHANGED <<slist, sret>>

\* zip.peek_right_mut(), the caller storing w (if not 0) through the borrow
DoPeekRightMut(w) ==
    /\ live = "ZipList"
    /\ LET p == ZipPeekRightMut(zip, w)
       IN  /\ zip' = p.zip
           /\ Called("peek_right_mut", w, p.ret, zip)
           /\ calls' = 0
           /\ anchor' = Represented(p.zip)
    /\ scen' = ScenStep("peek_right_mut", w)
    /\ UNCHANGED count
    /\ ZipFrame
    /\ UNCHANGED <<slist, sret>>

\* zip.move_left()
DoMoveLeft ==
    /\ live = "ZipList"
    /\ zip.left.len > -MaxLen /\ zip.right.len <= MaxLen
    /\ LET m == MoveLeft(zip)
       IN  /\ zip' = m.zip
           /\ Called("move_left", 0, m.ret, zip)
           /\ calls' = 0
           /\ UNCHANGED anchor
    /\ scen' = ScenStep("move_left", 0)
    /\ UNCHANGED count
    /\ ZipFrame
    /\ UNCHANGED <<slist, sret>>

\* zip.move_right()
DoMoveRight ==
    /\ live = "ZipList"
    /\ zip.right.len > -MaxLen /\ zip.left.len <= MaxLen
    /\ LET m == MoveRight(zip)
       IN  /\ zip' = m.zip
           /\ Called("move_right", 0, m.ret, zip)
           /\ calls' = 0
           /\ UNCHANGED anchor
    /\ scen' = ScenStep("move_right", 0)
    /\ UNCHANGED count
    /\ ZipFrame
    /\ UNCHANGED <<slist, sret>>

\* zip.seek_left(n)
DoSeekLeft(n) ==
    /\ live = "ZipList"
    /\ zip.left.len > -MaxLen /\ zip.right.len <= MaxLen
    /\ LET s == SeekLeft(zip, n)
       IN  /\ zip' = s.zip
           /\ Called("seek_left", n, s.ret, zip)
           /\ calls' = s.calls
           /\ UNCHANGED anchor
    /\ scen' = ScenStep("seek_left", n)
    /\ UNCHANGED count
    /\ ZipFrame
    /\ UNCHANGED <<slist, sret>>

\* zip.seek_right(n)
DoSeekRight(n) ==
    /\ live = "ZipList"
    /\ zip.right.len > -MaxLen /\ zip.left.len <= MaxLen
    /\ LET s == SeekRight(zip, n)
       IN  /\ zip' = s.zip
           /\ Called("seek_right", n, s.ret, zip)
           /\ calls' = s.calls
           /\ UNCHANGED anchor
    /\ scen' = ScenStep("seek_right", n)
    /\ UNCHANGED count
    /\ ZipFrame
    /\ UNCHANGED <<slist, sret>>

Next ==
    \/ DoListNew
    \/ \E e \in Elem : DoPush(e)
    \/ DoPop
    \/ DoPeek
    \/ DoTwinNew
    \/ DoLen
    \/ DoIsEmpty
    \/ DoIter
    \/ DoIterNext
    \/ DoIterDrop
    \/ DoIterMut
    \/ DoIterMutNext
    \/ DoIterMutStore
    \/ DoIterMutDrop
    \/ DoIntoIter
    \/ DoTraitIntoIter
    \/ DoIntoIterNext
    \/ DoIntoIterDrop
    \/ DoListDrop
    \/ DoFmtDisplay
    \/ DoFmtDebug
    \/ DoZipNew
    \/ \E e \in Elem : DoPushLeft(e)
    \/ \E e \in Elem : DoPushRight(e)
    \/ DoPopLeft
    \/ DoPopRight
    \/ DoPeekLeft
    \/ DoPeekRight
    \/ \E w \in {0} \cup Elem : DoPeekLeftMut(w)
    \/ \E w \in {0} \cup Elem : DoPeekRightMut(w)
    \/ DoMoveLeft
    \/ DoMoveRight
    \/ \E n \in SeekArg : DoSeekLeft(n)
    \/ \E n \in SeekArg : DoSeekRight(n)

Spec == Init /\ [][Next]_vars

\* ---- claims ---------------------------------------------------------------

\* C1: push/pop is LIFO.  After a run of pushes v1..vn onto any List, the
\* pops that follow return Some(vn), ..., Some(v1) in that order, and once n
\* pops are done the List is what it was before the run (contents and len).
C1_PushPopLifo ==
    live = "List" =>
        /\ Len(pops) <= Len(run)
        /\ \A i \in 1..Len(pops) : pops[i] = Some(run[Len(run) + 1 - i])
        /\ (run # <<>> /\ Len(pops) = Len(run)) => list = base

C1_Witness ==
    /\ live = "List" /\ last.op = "pop"
    /\ Len(run) = 2 /\ Len(pops) = 2 /\ run[1] # run[2]
    /\ base.head # None

\* C2: immediately after push_right(e), peek_right() returns Some(e),
\* right.len() has grown by 1 and the left side is unchanged.
C2_PushRightAdjacent ==
    (live = "ZipList" /\ last.op = "push_right") =>
        /\ ZipPeekRight(zip) = Some(last.arg)
        /\ ListLen(zip.right) = ListLen(last.pre.right) + 1
        /\ zip.left = last.pre.left

\* C3: move_left() from (l, r) with l > 0 returns true, gives (l-1, r+1) and
\* the old left head is the new right head; with l = 0 it returns false and
\* changes nothing.  move_right() is the mirror.
C3_MoveStep ==
    /\ (live = "ZipList" /\ last.op = "move_left") =>
           IF ListLen(last.pre.left) > 0
           THEN /\ last.ret = TRUE
                /\ ListLen(zip.left) = ListLen(last.pre.left) - 1
                /\ ListLen(zip.right) = ListLen(last.pre.right) + 1
                /\ ZipPeekRight(zip) = ZipPeekLeft(last.pre)
                /\ ZipPeekRight(zip) # None
           ELSE /\ last.ret = FALSE
                /\ zip = last.pre
    /\ (live = "ZipList" /\ last.op = "move_right") =>
           IF ListLen(last.pre.right) > 0
           THEN /\ last.ret = TRUE
                /\ ListLen(zip.right) = ListLen(last.pre.right) - 1
                /\ ListLen(zip.left) = ListLen(last.pre.left) + 1
                /\ ZipPeekLeft(zip) = ZipPeekRight(last.pre)
                /\ ZipPeekLeft(zip) # None
           ELSE /\ last.ret = FALSE
                /\ zip = last.pre

C3_Witness ==
    /\ live = "ZipList" /\ last.op = "move_left" /\ last.ret = TRUE
    /\ ListLen(last.pre.left) = 2 /\ ListLen(last.pre.right) = 1
    /\ ZipPeekLeft(zip) # ZipPeekRight(zip)

\* C4: seek_left(n) returns min(n, L) for L = left.len(), and moves exactly
\* that many elements from the left side to the right side; seek_right(n)
\* likewise with R = right.len().
C4_SeekClamp ==
    /\ (live = "ZipList" /\ last.op = "seek_left") =>
           /\ last.ret = Min(last.arg, ListLen(last.pre.left))
           /\ ListLen(zip.left) = ListLen(last.pre.left) - last.ret
           /\ ListLen(zip.right) = ListLen(last.pre.right) + last.ret
    /\ (live = "ZipList" /\ last.op = "seek_right") =>
           /\ last.ret = Min(last.arg, ListLen(last.pre.right))
           /\ ListLen(zip.right) = ListLen(last.pre.right) - last.ret
           /\ ListLen(zip.left) = ListLen(last.pre.left) + last.ret

C4_Witness ==
    /\ live = "ZipList" /\ last.op = "seek_left"
    /\ ListLen(last.pre.left) = 2 /\ last.arg > 2 /\ last.ret = 2
    /\ ListLen(last.pre.right) = 1

\* C5: a successful move_left() followed by move_right() restores the
\* original left and right sides exactly, and so does a successful
\* move_right() followed by move_left().
C5_MoveRoundTrip ==
    /\ (last.op = "move_right" /\ prev.op = "move_left" /\ prev.ret = TRUE)
           => (last.ret = TRUE /\ zip = prev.pre)
    /\ (last.op = "move_left" /\ prev.op = "move_right" /\ prev.ret = TRUE)
           => (last.ret = TRUE /\ zip = prev.pre)

C5_Witness ==
    /\ last.op = "move_right" /\ prev.op = "move_left" /\ prev.ret = TRUE
    /\ Len(prev.pre.left.head) = 2 /\ Len(prev.pre.right.head) = 1

\* the cached len of l is the number of nodes reachable from its head, and
\* is_empty() iff head is none iff len = 0
LenAgrees(l) ==
    /\ ListLen(l) = Len(l.head)
    /\ ListIsEmpty(l) <=> (ListLen(l) = 0)
    /\ (l.head = None) <=> (ListLen(l) = 0)

\* C6: after every sequence of calls each List's cached len is the number of
\* its nodes, is_empty() iff head is none iff len = 0, and ZipList::len() is
\* left.len() + right.len(), the number of elements present (pushes minus
\* successful pops).
C6_LengthInvariant ==
    /\ live = "List" =>
           /\ LenAgrees(list)
           /\ ListLen(list) = count
    /\ live = "ZipList" =>
           /\ LenAgrees(zip.left)
           /\ LenAgrees(zip.right)
           /\ ZipLen(zip) = ListLen(zip.left) + ListLen(zip.right)
           /\ ZipLen(zip) = count
           /\ count = Len(zip.left.head) + Len(zip.right.head)
           /\ ZipIsEmpty(zip) <=> (count = 0)

C6_Witness ==
    /\ live = "ZipList" /\ last.op = "pop_right" /\ last.ret # None
    /\ count = 2 /\ ListLen(zip.left) = 1 /\ ListLen(zip.right) = 1

C8_IterOrder ==
    /\ last.op \in {"iter", "iter_next"} => list = last.pre
    /\ Exhausted =>
           /\ yielded = list.head
           /\ fresh # None => yielded = Reverse(fresh[1])
           /\ doneYield # None => yielded = doneYield[1]

C8_Witness ==
    /\ Exhausted /\ fresh # None /\ doneYield # None
    /\ Len(fresh[1]) = 3 /\ fresh[1][1] # fresh[1][3]

\* C9: pop() on an empty List, and pop_left()/pop_right() on an empty side,
\* return none and change nothing (len stays 0); on a non-empty side they
\* return the cursor-adjacent element and shorten only that side by 1.
PopsHead(before, after, ret) ==
    IF before.head = None
    THEN /\ ret = None
         /\ after = before
         /\ ListLen(after) = 0
    ELSE /\ ret = Some(Head(before.head))
         /\ after.head = Tail(before.head)
         /\ ListLen(after) = ListLen(before) - 1

C9_PopEmpty ==
    /\ last.op = "pop" => PopsHead(last.pre, list, last.ret)
    /\ last.op = "pop_left" =>
           /\ PopsHead(last.pre.left, zip.left, last.ret)
           /\ zip.right = last.pre.right
    /\ last.op = "pop_right" =>
           /\ PopsHead(last.pre.right, zip.right, last.ret)
           /\ zip.left = last.pre.left

C9_Witness ==
    /\ last.op = "pop_right" /\ last.ret = None
    /\ last.pre.right.head = None /\ Len(last.pre.left.head) = 2

\* C10: from an empty ZipList, push_left(1); push_left(2); push_right(3) give
\* left = [2,1] and right = [3]; move_left() then returns true with left = [1]
\* and right = [2,3]; peek_right() returns Some(2); seek_right(5) returns 2,
\* leaving the right side empty and every element on the left.
C10_Scenario ==
    /\ scen = 3 => (zip.left.head = <<2, 1>> /\ zip.right.head = <<3>>)
    /\ scen = 4 => /\ last.ret = TRUE
                   /\ zip.left.head = <<1>>
                   /\ zip.right.head = <<2, 3>>
    /\ scen = 5 => last.ret = Some(2)
    /\ scen = 6 => /\ last.ret = 2
                   /\ zip.right.head = None
                   /\ Len(zip.left.head) = 3

\* C14: cursor moves conserve the represented sequence.  Across any run of
\* move_left/move_right/seek_left/seek_right calls, successful or not,
\* reverse(left) ++ right stays what it was, and each successful single move
\* takes exactly one element off one side and puts it on the other.
C14_MovesConserve ==
    live = "ZipList" =>
        /\ Represented(zip) = anchor
        /\ (last.op = "move_left" /\ last.ret = TRUE) =>
               /\ Len(zip.left.head) = Len(last.pre.left.head) - 1
               /\ Len(zip.right.head) = Len(last.pre.right.head) + 1
        /\ (last.op = "move_right" /\ last.ret = TRUE) =>
               /\ Len(zip.right.head) = Len(last.pre.right.head) - 1
               /\ Len(zip.left.head) = Len(last.pre.left.head) + 1

C14_Witness ==
    /\ live = "ZipList" /\ last.op = "move_right" /\ last.ret = TRUE
    /\ Len(anchor) = 3 /\ anchor[1] # anchor[2] /\ anchor[2] # anchor[3]
    /\ Len(zip.right.head) = 1 /\ Len(zip.left.head) = 2

\* C16: push_left, pop_left, peek_left and peek_left_mut leave the right side
\* unchanged, and push_right, pop_right, peek_right and peek_right_mut leave
\* the left side unchanged.
C16_OneSided ==
    /\ last.op \in {"push_left", "pop_left", "peek_left", "peek_left_mut"}
           => zip.right = last.pre.right
    /\ last.op \in {"push_right", "pop_right", "peek_right", "peek_right_mut"}
           => zip.left = last.pre.left

\* C17: seek_left(n) and seek_right(n) terminate after at most min(n, side
\* length) successful moves plus at most one failing move_* call: no call
\* follows the n-th success or a failure, and n = 0 makes no call at all.
C17_SeekTerminates ==
    /\ (live = "ZipList" /\ last.op = "seek_left") =>
           /\ last.ret <= Min(last.arg, Len(last.pre.left.head))
           /\ calls = IF last.ret = last.arg THEN last.ret ELSE last.ret + 1
           /\ calls <= Min(last.arg, Len(last.pre.left.head)) + 1
           /\ last.arg = 0 => (calls = 0 /\ zip = last.pre)
    /\ (live = "ZipList" /\ last.op = "seek_right") =>
           /\ last.ret <= Min(last.arg, Len(last.pre.right.head))
           /\ calls = IF last.ret = last.arg THEN last.ret ELSE last.ret + 1
           /\ calls <= Min(last.arg, Len(last.pre.right.head)) + 1
           /\ last.arg = 0 => (calls = 0 /\ zip = last.pre)

C17_Witness ==
    /\ live = "ZipList" /\ last.op = "seek_left"
    /\ last.arg = MaxSeek /\ Len(last.pre.left.head) = 2 /\ calls = 3

\* C19: if seek_left(n) returns k, an immediately following seek_right(k)
\* returns k and restores the original left and right sides; likewise
\* seek_right(n) followed by seek_left(k).
C19_SeekUndo ==
    /\ (last.op = "seek_right" /\ prev.op = "seek_left") =>
           /\ last.arg = prev.ret
           /\ last.ret = prev.ret
           /\ zip = prev.pre
    /\ (last.op = "seek_left" /\ prev.op = "seek_right") =>
           /\ last.arg = prev.ret
           /\ last.ret = prev.ret
           /\ zip = prev.pre

C19_Witness ==
    /\ last.op = "seek_right" /\ prev.op = "seek_left"
    /\ prev.arg > 2 /\ prev.ret = 2 /\ Len(prev.pre.right.head) = 1

\* C11: when the loop of List's Drop has finished, every node has been
\* detached: the head is none and len is 0, so no chain is left for the field
\* destructor to walk.
C11_DropDetaches ==
    (live = "Dropped" /\ last.op = "drop") =>
        (list.head = None /\ ListLen(list) = 0)

\* the chain an iterator has still to yield
Remaining(i) == Len(i.next)

\* the length of the list an iterator was made from
StartLen == IF it.kind = "IntoIter" THEN Len(base.head) ELSE Len(list.head)

\* C12: size_hint()/len() of Iter, IterMut and IntoIter report exactly the
\* number of elements not yet yielded: n at the start, one less after each
\* next() that returns an element, 0 exactly when next() returns none, and
\* never below 0, also when next() is called again after the end.
C12_ExactRemaining ==
    it.kind # "None" =>
        /\ SizeHint(it) = <<Remaining(it), Some(Remaining(it))>>
        /\ ExactLen(it) = Remaining(it)
        /\ ExactLen(it) = StartLen - Len(yielded)
        /\ ExactLen(it) >= 0
        /\ (ExactLen(it) = 0) <=> (NextOf(it).ret = None)
        /\ (last.op \in NextOps /\ last.ret = None) => ExactLen(it) = 0

C12_Witness ==
    /\ it.kind = "IterMut"
    /\ last.op = "iter_mut_next" /\ last.ret = None
    /\ prev.op = "iter_mut_next" /\ prev.ret = None
    /\ Len(yielded) = 3

\* the values successive pop() calls on l return, until pop() returns none
RECURSIVE PopAll(_)
PopAll(l) ==
    LET p == ListPop(l)
    IN  IF p.ret = None THEN <<>> ELSE <<p.ret[1]>> \o PopAll(p.list)

\* C13: into_iter() yields exactly what successive pop() calls would return
\* (the reverse of the push order), and once it has returned none the list
\* it holds is empty with len 0; the by-value IntoIterator::into_iter returns
\* that same iterator.
C13_IntoIterIsPop ==
    /\ last.op \in {"into_iter", "trait_into_iter"} =>
           /\ it = ListIntoIter(last.pre)
           /\ Inner(it) = last.pre
    /\ live = "IntoIter" =>
           /\ Len(yielded) <= Len(PopAll(base))
           /\ \A i \in 1..Len(yielded) : yielded[i] = PopAll(base)[i]
    /\ ExhaustedInto =>
           /\ yielded = PopAll(base)
           /\ fresh # None => yielded = Reverse(fresh[1])
           /\ Inner(it).head = None
           /\ ListLen(Inner(it)) = 0

C13_Witness ==
    /\ ExhaustedInto /\ fresh # None
    /\ Len(fresh[1]) = 3 /\ fresh[1][1] # fresh[1][3]

\* x + 1 for every x of s
Inc(s) == [i \in 1..Len(s) |-> s[i] + 1]

\* C15: after pushes v1..vn, a pass of iter_mut() that stores x + 1 into each
\* element it is given has visited every element once from head to tail when
\* it ends, and afterwards iter() yields vn+1, ..., v1+1 while the length and
\* the order are as before.
C15_IterMutInPlace ==
    /\ (/\ ExhaustedMut
        /\ mpass.pushed # None
        /\ mpass.wrote = Len(yielded)) =>
           /\ yielded = Reverse(mpass.pushed[1])
           /\ list.head = Inc(Reverse(mpass.pushed[1]))
           /\ ListLen(list) = Len(mpass.pushed[1])
    /\ (Exhausted /\ mpass.done) =>
           /\ yielded = Inc(Reverse(mpass.pushed[1]))
           /\ ListLen(list) = Len(mpass.pushed[1])

C15_Witness ==
    /\ Exhausted /\ mpass.done
    /\ Len(mpass.pushed[1]) = 3 /\ mpass.pushed[1][1] # mpass.pushed[1][3]

\* the characters of the elements of s in decimal, separated by ", "
RECURSIVE Joined(_)
Joined(s) ==
    IF s = <<>> THEN <<>>
    ELSE IF Len(s) = 1 THEN Decimal(s[1])
    ELSE Decimal(s[1]) \o <<",", " ">> \o Joined(Tail(s))

\* C18: the Debug and the Display form of a List are both "[" then the
\* elements from head to tail separated by ", " then "]", with no quoting
\* around the elements.
C18_Rendering ==
    last.op \in {"fmt_debug", "fmt_display"} =>
        last.ret = <<"[">> \o Joined(last.pre.head) \o <<"]">>

\* a node is present exactly when the cached len is above 0
NodeIffLen(head, len) == len >= 0 /\ (head # None <=> len > 0)

\* C20: len -= 1 in List::uncons, Iter::next and IterMut::next runs only with
\* len >= 1: a node is present exactly when len > 0, in every List and
\* iterator of every reachable state, so no cached length goes below 0.
C20_NoUnderflow ==
    /\ live = "List" => NodeIffLen(list.head, list.len)
    /\ live = "ZipList" =>
           /\ NodeIffLen(zip.left.head, zip.left.len)
           /\ NodeIffLen(zip.right.head, zip.right.len)
    /\ it.kind # "None" => NodeIffLen(it.next, it.len)
    /\ (last.op \in {"pop", "into_iter_next"} /\ last.ret # None) =>
           ListLen(last.pre) >= 1
    /\ (last.op = "pop_left" /\ last.ret # None) => ListLen(last.pre.left) >= 1
    /\ (last.op = "move_left" /\ last.ret = TRUE) => ListLen(last.pre.left) >= 1
    /\ (last.op = "pop_right" /\ last.ret # None) => ListLen(last.pre.right) >= 1
    /\ (last.op = "move_right" /\ last.ret = TRUE) => ListLen(last.pre.right) >= 1
    /\ last.op = "seek_left" => ListLen(last.pre.left) >= last.ret
    /\ last.op = "seek_right" => ListLen(last.pre.right) >= last.ret

C20_Witness ==
    /\ it.kind = "IterMut" /\ last.op = "iter_mut_next" /\ last.ret # None
    /\ it.len = 0 /\ Len(yielded) = 2

\* C21: the stand-alone List of slist.rs and the List of lib.rs agree: after
\* every sequence of new/push/pop/peek/len/is_empty calls made on both, the
\* last call returned the same on both, and both hold the same elements in the
\* same order with the same len.
C21_TwinLists ==
    live = "Twin" =>
        /\ slist.head = list.head
        /\ SListLen(slist) = ListLen(list)
        /\ SListIsEmpty(slist) = ListIsEmpty(list)
        /\ last.op \in {"push", "pop", "peek", "len", "is_empty"} =>
               sret = last.ret

C21_Witness ==
    /\ live = "Twin"
    /\ last.op = "is_empty" /\ last.ret = TRUE /\ sret = TRUE
    /\ fresh = None /\ Len(run) = 2 /\ Len(pops) = 2

====
